---- MODULE Spec2Model ----
(***************************************************************************)
(* A model of cascadia's selector.go: the Selector combinators, the tree   *)
(* search MatchAll and the Compile entry point.                            *)
(*                                                                         *)
(* Strings are sequences of byte values (65 is 'A', 97 is 'a', 32 is ' '). *)
(* A *html.Node is a number; the nil pointer is Nil.  The fields of        *)
(* html.Node are the functions Type, Data, Attr, Parent and Child.         *)
(* A Selector (a Go closure) is a record naming the constructor that built *)
(* it and the values it captured; Apply runs its body on a node.           *)
(* The outcome of running Go code is a record [panic, val]: a run-time     *)
(* panic is an outcome of its own, never a boolean.                        *)
(***************************************************************************)
EXTENDS Integers, Sequences, FiniteSets, TLC

VARIABLES Type, Data, Attr, Parent, Child,
          pc, sel, args, node, stack, applied, result, ret, p, compiled

vars == <<Type, Data, Attr, Parent, Child,
          pc, sel, args, node, stack, applied, result, ret, p, compiled>>

tree == <<Type, Data, Attr, Parent, Child>>

--------------------------------------------------------------------------
(* Bounds of the model.                                                    *)

\* Nodes of the trees MatchAll walks.
MaxNodes == 5
\* Children of the parent under which the structural selectors are applied.
MaxKids == 5
\* Width of the model's int (Go's int is 64 bits wide; the model keeps its
\* two's-complement wrap-around at a width small enough to enumerate).
IntBits == 5
\* Children of the parent in the an+b arithmetic runs.
ArithKids == 2
\* Length of an attribute key.
MaxKeyLen == 1
\* Length of an attribute value given to attributeIncludesSelector.
MaxValLen == 3
\* Length of the selector text given to Compile.
MaxSelLen == 3

--------------------------------------------------------------------------
(* Go values.                                                              *)

Nil == 0

ElementNode == "ElementNode"
TextNode == "TextNode"

\* A normal return of a bool, and a run-time panic.
R(b) == [panic |-> FALSE, val |-> b]
Panic == [panic |-> TRUE, val |-> FALSE]

Pow2(k) == 2 ^ k
MinInt == -Pow2(IntBits - 1)
MaxInt == Pow2(IntBits - 1) - 1
GoInt == MinInt .. MaxInt

\* The int an exact result is stored as: two's-complement wrap-around.
Wrap(x) == ((x - MinInt) % Pow2(IntBits)) + MinInt

Abs(x) == IF x < 0 THEN -x ELSE x

\* Go's x / y and x % y on ints, y # 0: the quotient truncates towards zero
\* and the remainder takes the sign of x; MinInt / -1 wraps to MinInt.
GoQuo(x, y) ==
    LET q == Abs(x) \div Abs(y)
    IN  Wrap(IF (x < 0) = (y < 0) THEN q ELSE -q)
GoRem(x, y) == Wrap(x - y * GoQuo(x, y))

\* The strings of length lo..hi over the bytes in alphabet.
Strings(alphabet, lo, hi) == UNION {[1..k -> alphabet] : k \in lo..hi}

Range(s) == {s[i] : i \in 1..Len(s)}

--------------------------------------------------------------------------
(* Case folding and the attribute value tests.                             *)

\* toLowerASCII: every byte in 'A'..'Z' is replaced by itself + ('a' - 'A');
\* every other byte is kept.
toLowerASCII(s) ==
    [i \in 1..Len(s) |-> IF 65 <= s[i] /\ s[i] <= 90 THEN s[i] + (97 - 65) ELSE s[i]]

\* The cutset of strings.IndexAny in attributeIncludesSelector: " \t\r\n\f".
Whitespace == {32, 9, 13, 10, 12}

\* strings.IndexAny(s, " \t\r\n\f"): the 0-based index of the first byte of s
\* that is in the cutset, or -1.
IndexAny(s) ==
    LET hits == {i \in 1..Len(s) : s[i] \in Whitespace}
    IN  IF hits = {} THEN -1
        ELSE (CHOOSE i \in hits : \A j \in hits : i <= j) - 1

\* includesLoop as strings.Contains(s, val): val anywhere in the value.
includesLoopContains(s, val) ==
    \E i \in 0..Len(s) : i + Len(val) <= Len(s) /\ SubSeq(s, i + 1, i + Len(val)) = val

\* The loop of the closure attributeIncludesSelector gives to attributeSelector.
RECURSIVE includesLoop(_, _)
includesLoop(s, val) ==
    IF s = <<>> THEN FALSE
    ELSE LET i == IndexAny(s)
         IN  IF i = -1 THEN s = val
             ELSE IF SubSeq(s, 1, i) = val THEN TRUE
             ELSE includesLoop(SubSeq(s, i + 2, Len(s)), val)

\* The value tests (func(string) bool) handed to attributeSelector.  "func"
\* is an arbitrary pure test, given by the set of values it accepts.
PredFunc(accepts) == [kind |-> "func", accepts |-> accepts, val |-> <<>>]
PredAlways == [kind |-> "always", accepts |-> {}, val |-> <<>>]
PredEquals(val) == [kind |-> "equals", accepts |-> {}, val |-> val]
PredIncludes(val) == [kind |-> "includes", accepts |-> {}, val |-> val]

ApplyPred(f, s) ==
    CASE f.kind = "func" -> s \in f.accepts
      [] f.kind = "always" -> TRUE
      [] f.kind = "equals" -> s = f.val
      [] f.kind = "includes" -> includesLoop(s, f.val)

--------------------------------------------------------------------------
(* The Selector constructors.  Each returns the closure it builds: the     *)
(* constructor's name and the captured values.                             *)

NoSel == [kind |-> "nil"]

\* An arbitrary Selector (type Selector func(*html.Node) bool), given by the
\* set of nodes it accepts.
funcSelector(accepts) == [kind |-> "func", accepts |-> accepts]

typeSelector(tag) == [kind |-> "type", tag |-> toLowerASCII(tag)]

\* attributeSelector without key = toLowerASCII(key).
attributeSelectorUnfolded(key, f) == [kind |-> "attr", key |-> key, f |-> f]

attributeSelector(key, f) == [kind |-> "attr", key |-> toLowerASCII(key), f |-> f]

attributeExistsSelector(key) == attributeSelector(key, PredAlways)

attributeEqualsSelector(key, val) == attributeSelector(key, PredEquals(val))

attributeIncludesSelector(key, val) == attributeSelector(key, PredIncludes(val))

intersectionSelector(a, b) == [kind |-> "and", a |-> a, b |-> b]

negatedSelector(a) == [kind |-> "not", a |-> a]

nthChildSelector(a, b, last, ofType) ==
    [kind |-> "nth", a |-> a, b |-> b, last |-> last, ofType |-> ofType]

onlyChildSelector(ofType) == [kind |-> "only", ofType |-> ofType]

--------------------------------------------------------------------------
(* The bodies of the closures.                                             *)

typeSelectorMatch(tag, n) == R(Type[n] = ElementNode /\ Data[n] = tag)

\* for _, a := range n.Attr: the first attribute from index k on whose key is
\* key and whose value passes f ends the loop with true.
RECURSIVE attrLoop(_, _, _, _)
attrLoop(key, f, n, k) ==
    IF k > Len(Attr[n]) THEN FALSE
    ELSE IF Attr[n][k].Key = key /\ ApplyPred(f, Attr[n][k].Val) THEN TRUE
    ELSE attrLoop(key, f, n, k + 1)

attributeSelectorMatch(key, f, n) ==
    IF Type[n] # ElementNode THEN R(FALSE)
    ELSE R(attrLoop(key, f, n, 1))

\* skipped without the test of the sibling's node type.
skippedOnlyByName(c, n, ofType) == ofType /\ Data[c] # Data[n]

\* The sibling filter of both structural selectors: c is skipped.
skipped(c, n, ofType) == Type[c] # ElementNode \/ (ofType /\ Data[c] # Data[n])

\* for _, c := range parent.Child in nthChildSelector, from index k on with
\* the locals i and count; returns their final values.
RECURSIVE nthLoop(_, _, _, _, _, _, _)
nthLoop(n, parent, last, ofType, k, i, count) ==
    IF k > Len(Child[parent]) THEN [i |-> i, count |-> count]
    ELSE LET c == Child[parent][k]
         IN  IF skipped(c, n, ofType)
             THEN nthLoop(n, parent, last, ofType, k + 1, i, count)
             ELSE IF c = n
             THEN IF ~last
                  THEN [i |-> count + 1, count |-> count + 1]
                  ELSE nthLoop(n, parent, last, ofType, k + 1, count + 1, count + 1)
             ELSE nthLoop(n, parent, last, ofType, k + 1, i, count + 1)

\* nthPosition without the mirroring of last.
nthPositionUnmirrored(n, parent, last, ofType) ==
    nthLoop(n, parent, last, ofType, 1, -1, 0).i

\* The position nthChildSelector tests: i after the loop and the mirroring,
\* or -1 when the loop did not find n.
nthPosition(n, parent, last, ofType) ==
    LET l == nthLoop(n, parent, last, ofType, 1, -1, 0)
    IN  IF l.i = -1 THEN -1
        ELSE IF last THEN l.count - l.i + 1
        ELSE l.i

\* i -= b; if a == 0 { return i == 0 }; return i%a == 0 && i/a >= 0
\* A division by zero is a run-time panic.
nthTest(i, a, b) ==
    LET j == Wrap(i - b)
    IN  IF a = 0 THEN R(j = 0)
        ELSE R(GoRem(j, a) = 0 /\ GoQuo(j, a) >= 0)

\* nthChildSelectorMatch without the parent == nil test: ranging over
\* parent.Child dereferences the nil pointer.
nthChildSelectorMatchUnguarded(a, b, last, ofType, n) ==
    IF Type[n] # ElementNode THEN R(FALSE)
    ELSE IF Parent[n] = Nil THEN Panic
    ELSE LET i == nthPosition(n, Parent[n], last, ofType)
         IN  IF i = -1 THEN R(FALSE)
             ELSE nthTest(i, a, b)

\* Dereferencing a nil *html.Node is a run-time panic.
nthChildSelectorMatch(a, b, last, ofType, n) ==
    IF Type[n] # ElementNode THEN R(FALSE)
    ELSE IF Parent[n] = Nil THEN R(FALSE)
    ELSE LET i == nthPosition(n, Parent[n], last, ofType)
         IN  IF i = -1 THEN R(FALSE)
             ELSE nthTest(i, a, b)

\* for _, c := range parent.Child in onlyChildSelector, from index k on with
\* the local count; "many" is the return false inside the loop.
RECURSIVE onlyLoop(_, _, _, _, _)
onlyLoop(n, parent, ofType, k, count) ==
    IF k > Len(Child[parent]) THEN [many |-> FALSE, count |-> count]
    ELSE LET c == Child[parent][k]
         IN  IF skipped(c, n, ofType)
             THEN onlyLoop(n, parent, ofType, k + 1, count)
             ELSE IF count + 1 > 1 THEN [many |-> TRUE, count |-> count + 1]
             ELSE onlyLoop(n, parent, ofType, k + 1, count + 1)

\* onlyChildSelectorMatch without the return false inside the loop.
onlyChildSelectorMatchAtLeastOne(ofType, n) ==
    IF Type[n] # ElementNode THEN R(FALSE)
    ELSE IF Parent[n] = Nil THEN R(FALSE)
    ELSE R(onlyLoop(n, Parent[n], ofType, 1, 0).count >= 1)

onlyChildSelectorMatch(ofType, n) ==
    IF Type[n] # ElementNode THEN R(FALSE)
    ELSE IF Parent[n] = Nil THEN R(FALSE)
    ELSE LET l == onlyLoop(n, Parent[n], ofType, 1, 0)
         IN  IF l.many THEN R(FALSE) ELSE R(l.count = 1)

\* s(n): the body of the closure s run on node n.  a(n) && b(n) runs b only
\* when a returned true; a panic in an operand is a panic of the whole.
RECURSIVE Apply(_, _)
Apply(s, n) ==
    CASE s.kind = "func" -> R(n \in s.accepts)
      [] s.kind = "type" -> typeSelectorMatch(s.tag, n)
      [] s.kind = "attr" -> attributeSelectorMatch(s.key, s.f, n)
      [] s.kind = "nth" -> nthChildSelectorMatch(s.a, s.b, s.last, s.ofType, n)
      [] s.kind = "only" -> onlyChildSelectorMatch(s.ofType, n)
      [] s.kind = "not" ->
            LET x == Apply(s.a, n)
            IN  IF x.panic THEN Panic ELSE R(~x.val)
      [] s.kind = "and" ->
            LET x == Apply(s.a, n)
            IN  IF x.panic THEN Panic
                ELSE IF ~x.val THEN R(FALSE)
                ELSE Apply(s.b, n)

--------------------------------------------------------------------------
(* The variables outside the operation in progress.                        *)

NoArgs == [key |-> <<>>]
NoRet == [panic |-> FALSE, val |-> FALSE, pos |-> 0]
NoParser == [s |-> <<>>, i |-> 0, err |-> FALSE, sel |-> NoSel]
NoCompiled == [sel |-> NoSel, err |-> "nil", text |-> <<>>, left |-> 0]

Idle ==
    /\ pc = "idle"
    /\ sel = NoSel
    /\ args = NoArgs
    /\ node = Nil
    /\ stack = <<>>
    /\ applied = <<>>
    /\ result = <<>>
    /\ ret = NoRet
    /\ p = NoParser
    /\ compiled = NoCompiled

Nodes == DOMAIN Type

\* The elements of a set of numbers in ascending order.
RECURSIVE Ascending(_)
Ascending(S) ==
    IF S = {} THEN <<>>
    ELSE LET m == CHOOSE x \in S : \A y \in S : x <= y
         IN  <<m>> \o Ascending(S \ {m})

--------------------------------------------------------------------------
(* MatchAll: the recursion of lines 32-42 with its call stack.  A frame is *)
(* one activation: its argument n, the index k of the child the range loop *)
(* is at, and its named result.                                            *)

\* The trees MatchAll is run on: node 1 is the document root, every other
\* node hangs under a node of smaller number, children in ascending order.
\* MatchAll may be started at any node.
ParentMaps == {f \in [2..MaxNodes -> 1..MaxNodes] : \A n \in 2..MaxNodes : f[n] < n}

InitMatchAll ==
    /\ \E f \in ParentMaps :
          /\ Parent = [n \in 1..MaxNodes |-> IF n = 1 THEN Nil ELSE f[n]]
          /\ Child = [q \in 1..MaxNodes |-> Ascending({n \in 2..MaxNodes : f[n] = q})]
    /\ Type = [n \in 1..MaxNodes |-> ElementNode]
    /\ Data = [n \in 1..MaxNodes |-> <<97>>]
    /\ Attr = [n \in 1..MaxNodes |-> <<>>]
    /\ Idle

\* Entering MatchAll(n): if s(n) { result = append(result, n) }
Frame(s, n) == [n |-> n, k |-> 1, result |-> IF Apply(s, n).val THEN <<n>> ELSE <<>>]

\* A caller starts s.MatchAll(n).
MatchAllCall(s, n) ==
    /\ pc = "idle"
    /\ pc' = "matchall"
    /\ sel' = s
    /\ node' = n
    /\ stack' = <<Frame(s, n)>>
    /\ applied' = <<n>>
    /\ UNCHANGED <<tree, args, result, ret, p, compiled>>

\* The range loop of the top activation has a child left: s.MatchAll(child).
MatchAllRecurse ==
    /\ pc = "matchall"
    /\ LET top == stack[Len(stack)]
       IN  /\ top.k <= Len(Child[top.n])
           /\ stack' = Append(stack, Frame(sel, Child[top.n][top.k]))
           /\ applied' = Append(applied, Child[top.n][top.k])
    /\ UNCHANGED <<tree, pc, sel, args, node, result, ret, p, compiled>>

\* MatchAllReturn with the returned slice put in front of the caller's result.
MatchAllReturnPrepend ==
    /\ pc = "matchall"
    /\ LET d == Len(stack)
           top == stack[d]
       IN  /\ top.k > Len(Child[top.n])
           /\ IF d = 1
              THEN /\ result' = top.result
                   /\ stack' = <<>>
                   /\ pc' = "returned"
              ELSE /\ stack' = [SubSeq(stack, 1, d - 1) EXCEPT
                                  ![d - 1].result = top.result \o @,
                                  ![d - 1].k = @ + 1]
                   /\ UNCHANGED <<result, pc>>
    /\ UNCHANGED <<tree, sel, args, node, applied, ret, p, compiled>>

\* MatchAllReturn with the caller's loop stepping over the next child.
MatchAllReturnSkip ==
    /\ pc = "matchall"
    /\ LET d == Len(stack)
           top == stack[d]
       IN  /\ top.k > Len(Child[top.n])
           /\ IF d = 1
              THEN /\ result' = top.result
                   /\ stack' = <<>>
                   /\ pc' = "returned"
              ELSE /\ stack' = [SubSeq(stack, 1, d - 1) EXCEPT
                                  ![d - 1].result = @ \o top.result,
                                  ![d - 1].k = @ + 2]
                   /\ UNCHANGED <<result, pc>>
    /\ UNCHANGED <<tree, sel, args, node, applied, ret, p, compiled>>

\* The range loop of the top activation is over: return.  The caller appends
\* the returned slice to its result and moves to its next child.
MatchAllReturn ==
    /\ pc = "matchall"
    /\ LET d == Len(stack)
           top == stack[d]
       IN  /\ top.k > Len(Child[top.n])
           /\ IF d = 1
              THEN /\ result' = top.result
                   /\ stack' = <<>>
                   /\ pc' = "returned"
              ELSE /\ stack' = [SubSeq(stack, 1, d - 1) EXCEPT
                                  ![d - 1].result = @ \o top.result,
                                  ![d - 1].k = @ + 1]
                   /\ UNCHANGED <<result, pc>>
    /\ UNCHANGED <<tree, sel, args, node, applied, ret, p, compiled>>

FuncSelectors == {funcSelector(A) : A \in SUBSET (1..MaxNodes)}

NextMatchAll ==
    \/ \E s \in FuncSelectors, n \in Nodes : MatchAllCall(s, n)
    \/ MatchAllRecurse
    \/ MatchAllReturn

SpecMatchAll == InitMatchAll /\ [][NextMatchAll]_vars

\* A call of MatchAll runs to its end: nothing in it blocks or waits.
FairMatchAll == SpecMatchAll /\ WF_vars(NextMatchAll)

--------------------------------------------------------------------------
(* The structural selectors applied under one parent.  Node 1 is the       *)
(* parent and has no parent itself; its children are the nodes after it,   *)
(* in order; the last node is a stray: its Parent field names node 1, yet  *)
(* node 1's Child list does not hold it (the case nthChildSelector's       *)
(* "This shouldn't happen" guards).  Text nodes carry text in Data, which  *)
(* may read like a tag name.                                               *)

ElementA == <<ElementNode, <<97>>>>
ElementB == <<ElementNode, <<98>>>>
TextA == <<TextNode, <<97>>>>

FamilyAttr(kind) ==
    IF kind = ElementA THEN <<[Key |-> <<97>>, Val |-> <<120>>]>> ELSE <<>>

\* The parent, kids children of the given kinds, then the stray.
Family(kids, kinds) ==
    /\ Type = [n \in 1..kids + 2 |-> kinds[n][1]]
    /\ Data = [n \in 1..kids + 2 |-> kinds[n][2]]
    /\ Attr = [n \in 1..kids + 2 |-> FamilyAttr(kinds[n])]
    /\ Parent = [n \in 1..kids + 2 |-> IF n = 1 THEN Nil ELSE 1]
    /\ Child = [n \in 1..kids + 2 |-> IF n = 1 THEN [i \in 1..kids |-> i + 1] ELSE <<>>]

InitStruct ==
    /\ \E kids \in 0..MaxKids :
          \E kinds \in [1..kids + 2 -> {ElementA, ElementB, TextA}] :
             /\ kinds[1] # ElementB
             /\ kinds[kids + 2] # ElementB
             /\ Family(kids, kinds)
    /\ Idle

\* What a call s(n) leaves behind: the outcome and, for nthChildSelector on
\* an element with a parent, the position its test was given.
Outcome(s, n) ==
    LET r == Apply(s, n)
    IN  [panic |-> r.panic, val |-> r.val,
         pos |-> IF s.kind = "nth" /\ Type[n] = ElementNode /\ Parent[n] # Nil
                 THEN nthPosition(n, Parent[n], s.last, s.ofType)
                 ELSE 0]

\* A caller runs the selector s on node n.
CallSelector(s, n) ==
    /\ pc = "idle"
    /\ pc' = "applied"
    /\ sel' = s
    /\ node' = n
    /\ ret' = Outcome(s, n)
    /\ UNCHANGED <<tree, args, stack, applied, result, p, compiled>>

\* The an+b pairs of the structural runs: 2n+1 (odd), 3, 1 (first), -n+3.
StructAB == {<<2, 1>>, <<0, 3>>, <<0, 1>>, <<-1, 3>>}

FirstAndLast(ofType) ==
    intersectionSelector(nthChildSelector(0, 1, FALSE, ofType),
                         nthChildSelector(0, 1, TRUE, ofType))

StructSelectors ==
    {nthChildSelector(ab[1], ab[2], last, ofType) :
        ab \in StructAB, last \in BOOLEAN, ofType \in BOOLEAN}
    \cup {onlyChildSelector(ofType) : ofType \in BOOLEAN}
    \cup {FirstAndLast(ofType) : ofType \in BOOLEAN}
    \cup {negatedSelector(onlyChildSelector(FALSE)),
          negatedSelector(nthChildSelector(2, 1, FALSE, FALSE)),
          intersectionSelector(typeSelector(<<65>>), onlyChildSelector(TRUE)),
          typeSelector(<<65>>),
          attributeExistsSelector(<<65>>)}

NextStruct == \E s \in StructSelectors, n \in Nodes : CallSelector(s, n)

SpecStruct == InitStruct /\ [][NextStruct]_vars

\* The an+b arithmetic over the whole range of int: a parent with element
\* children of one name, every a and b.
InitArith ==
    /\ \E kids \in 0..ArithKids : Family(kids, [n \in 1..kids + 2 |-> ElementA])
    /\ Idle

ArithSelectors ==
    {nthChildSelector(a, b, last, FALSE) : a \in GoInt, b \in GoInt, last \in BOOLEAN}

NextArith == \E s \in ArithSelectors, n \in Nodes : CallSelector(s, n)

SpecArith == InitArith /\ [][NextArith]_vars

--------------------------------------------------------------------------
(* The attribute selectors applied to one node with up to MaxAttrs         *)
(* attributes.  html.Node keeps an attribute's key as it was given.        *)

\* Attributes of a node.
MaxAttrs == 2

LoneNode(type, attrs) ==
    /\ Type = [n \in {1} |-> type]
    /\ Data = [n \in {1} |-> <<97>>]
    /\ Attr = [n \in {1} |-> attrs]
    /\ Parent = [n \in {1} |-> Nil]
    /\ Child = [n \in {1} |-> <<>>]

\* Keys over 'A', 'a' and 'b'; the values "x" and "y".
Keys == Strings({65, 97, 98}, 1, MaxKeyLen)
PlainValues == {<<120>>, <<121>>}

InitAttr ==
    /\ \E type \in {ElementNode, TextNode} :
          \E k \in 0..MaxAttrs :
             \E attrs \in [1..k -> [Key : Keys, Val : PlainValues]] :
                LoneNode(type, attrs)
    /\ Idle

\* A caller builds attributeSelector(key, f) and runs it on node n.
CallAttributeSelector(key, f, n) ==
    /\ pc = "idle"
    /\ pc' = "applied"
    /\ args' = [key |-> key]
    /\ sel' = attributeSelector(key, f)
    /\ node' = n
    /\ ret' = Outcome(sel', n)
    /\ UNCHANGED <<tree, stack, applied, result, p, compiled>>

NextAttr ==
    \E key \in Keys, accepts \in SUBSET PlainValues, n \in Nodes :
        CallAttributeSelector(key, PredFunc(accepts), n)

SpecAttr == InitAttr /\ [][NextAttr]_vars

\* attributeIncludesSelector: one node with at most one attribute, its value
\* any string over 'a', 'b' and the five whitespace bytes.
ListValues == Strings({97, 98} \cup Whitespace, 0, MaxValLen)

\* Length of the val given to attributeIncludesSelector.
MaxItemLen == 2

IncludeVals == Strings({97, 98, 32}, 0, MaxItemLen)

InitIncludes ==
    /\ \E type \in {ElementNode, TextNode} :
          \E k \in 0..1 :
             \E attrs \in [1..k -> [Key : {<<97>>, <<98>>}, Val : ListValues]] :
                LoneNode(type, attrs)
    /\ Idle

\* A caller builds attributeIncludesSelector(key, val) and runs it on node n.
CallAttributeIncludesSelector(key, val, n) ==
    /\ pc = "idle"
    /\ pc' = "applied"
    /\ args' = [key |-> key]
    /\ sel' = attributeIncludesSelector(key, val)
    /\ node' = n
    /\ ret' = Outcome(sel', n)
    /\ UNCHANGED <<tree, stack, applied, result, p, compiled>>

NextIncludes ==
    \E val \in IncludeVals, n \in Nodes :
        CallAttributeIncludesSelector(<<97>>, val, n)

SpecIncludes == InitIncludes /\ [][NextIncludes]_vars

--------------------------------------------------------------------------
(* Compile.  The parser (type parser, parseSimpleSelectorSequence) is in   *)
(* another file of the package; what Compile sees of a run of it is the    *)
(* Selector and the error it returns and where it left the cursor p.i.     *)

\* The runs of parseSimpleSelectorSequence over text from offset 0: a parse
\* error (with or without a Selector built so far) or a Selector, the cursor
\* anywhere from 0 to len(text).
ParserRuns(text) ==
    {[s |-> text, i |-> i, err |-> e, sel |-> m] :
        i \in 0..Len(text), e \in BOOLEAN, m \in {NoSel, typeSelector(<<97>>)}}
    \ {[s |-> text, i |-> i, err |-> FALSE, sel |-> NoSel] : i \in 0..Len(text)}

\* Compile after the parser's run with the leftover test p.i <= len(sel) - 1
\* taken one byte too far: a single leftover byte passes.
CompileReturnOffByOne(text, run) ==
    IF run.err
    THEN [sel |-> NoSel, err |-> "parse", text |-> <<>>, left |-> 0]
    ELSE IF run.i < Len(text) - 1
    THEN [sel |-> NoSel, err |-> "leftover", text |-> text, left |-> Len(text) - run.i]
    ELSE [sel |-> run.sel, err |-> "nil", text |-> <<>>, left |-> 0]

\* Lines 19-27: what Compile returns after the parser's run.  The error of
\* line 24 is given by what it formats: the selector text and the count.
CompileReturn(text, run) ==
    IF run.err
    THEN [sel |-> NoSel, err |-> "parse", text |-> <<>>, left |-> 0]
    ELSE IF run.i < Len(text)
    THEN [sel |-> NoSel, err |-> "leftover", text |-> text, left |-> Len(text) - run.i]
    ELSE [sel |-> run.sel, err |-> "nil", text |-> <<>>, left |-> 0]

\* Compile(text): p := &parser{s: sel}, the parser's run, the return.
Compile(text) ==
    /\ pc = "idle"
    /\ pc' = "compiled"
    /\ \E run \in ParserRuns(text) :
          /\ p' = run
          /\ compiled' = CompileReturn(text, run)
    /\ UNCHANGED <<tree, sel, args, node, stack, applied, result, ret>>

\* Selector texts over 'a' and '['.
SelectorTexts == Strings({97, 91}, 0, MaxSelLen)

InitCompile ==
    /\ LoneNode(ElementNode, <<>>)
    /\ Idle

NextCompile == \E text \in SelectorTexts : Compile(text)

SpecCompile == InitCompile /\ [][NextCompile]_vars

--------------------------------------------------------------------------
(* Document order, stated on the tree and not on the traversal.            *)

\* The nodes of n's subtree: n and everything under it in the Child lists.
RECURSIVE Subtree(_)
Subtree(n) == {n} \cup UNION {Subtree(Child[n][i]) : i \in 1..Len(Child[n])}

\* x comes before y in pre-order: x is a proper ancestor of y, or x lies
\* under an earlier child than y of some node.
Before(x, y) ==
    /\ x # y
    /\ \/ y \in Subtree(x)
       \/ \E q \in Nodes : \E i, j \in 1..Len(Child[q]) :
             /\ i < j
             /\ x \in Subtree(Child[q][i])
             /\ y \in Subtree(Child[q][j])

NoDuplicates(s) == \A i, j \in 1..Len(s) : i # j => s[i] # s[j]

--------------------------------------------------------------------------
(* Claims about MatchAll.                                                  *)

\* C2: s.MatchAll(root) is the pre-order listing of root's subtree restricted
\* to the nodes s accepts: exactly the accepted nodes of the subtree, every
\* entry before the entries that follow it in document order, root first
\* when it is accepted.
C2_MatchAllIsPreOrderFilter ==
    pc = "returned" =>
        /\ Range(result) = {x \in Subtree(node) : Apply(sel, x).val}
        /\ \A i, j \in 1..Len(result) : i < j => Before(result[i], result[j])
        /\ Apply(sel, node).val => result[1] = node

\* A finished walk from the document root of a tree with a grandchild and
\* two children under one node, one node refused and all others accepted.
C2_Witness ==
    /\ pc = "returned"
    /\ node = 1
    /\ Len(result) = Cardinality(Nodes) - 1
    /\ Cardinality(Subtree(1)) = Cardinality(Nodes)
    /\ \E q \in Nodes : Len(Child[q]) = 2
    /\ \E x \in Range(result) : x # 1 /\ x \notin Range(Child[1])

\* C3: MatchAll terminates, and s is applied to each node of root's subtree
\* exactly once: never twice to a node during the walk, to every node of the
\* subtree and to no other by the end; the result has no duplicate and at
\* most as many entries as the subtree has nodes.
C3_MatchAllTerminatesVisitingOnce ==
    /\ <>(pc = "returned")
    /\ [](/\ NoDuplicates(applied)
          /\ pc = "returned" =>
                /\ Range(applied) = Subtree(node)
                /\ NoDuplicates(result)
                /\ Len(result) <= Cardinality(Subtree(node)))

\* A finished walk over a whole tree that applied s to every node and kept
\* fewer nodes than it visited.
C3_Witness ==
    /\ pc = "returned"
    /\ Len(applied) = Cardinality(Nodes)
    /\ Len(result) < Len(applied)
    /\ Len(result) > 0

--------------------------------------------------------------------------
(* Positions among siblings, stated on the Child list and not on the loops.*)

\* n is in the Child list of the node its Parent field names.
Listed(n) == Parent[n] # Nil /\ n \in Range(Child[Parent[n]])

Siblings(n) == Child[Parent[n]]

\* The index of n in its parent's Child list.
IndexOf(n) == CHOOSE k \in 1..Len(Siblings(n)) : Siblings(n)[k] = n

\* The indices of the children that count for n: the element nodes, and with
\* ofType only those of n's name.
Counted(n, ofType) ==
    {k \in 1..Len(Siblings(n)) :
        /\ Type[Siblings(n)[k]] = ElementNode
        /\ ofType => Data[Siblings(n)[k]] = Data[n]}

RankFromStart(n, ofType) == Cardinality({k \in Counted(n, ofType) : k <= IndexOf(n)})
RankFromEnd(n, ofType) == Cardinality({k \in Counted(n, ofType) : k >= IndexOf(n)})

\* i = a*k + b for some integer k >= 0, over the mathematical integers (k is
\* at most the distance between two ints).
OnProgression(i, a, b) == \E k \in 0..Pow2(IntBits) + MaxKids : i = a * k + b

--------------------------------------------------------------------------
(* Claims about the structural selectors.                                  *)

\* C5: the position nthChildSelector tests is the 1-based rank of the node
\* among its parent's element children (with ofType, those of the node's
\* name) in document order; with last it is count - rank + 1, the rank from
\* the end; siblings that do not count never change it.  With 5 element
\* children nthChildSelector(2,1,true,false) matches exactly the 1st, 3rd and
\* 5th child from the end.
C5_NthPositionIsRank ==
    (pc = "applied" /\ sel.kind = "nth" /\ Type[node] = ElementNode /\ Listed(node)) =>
        /\ ~sel.last => ret.pos = RankFromStart(node, sel.ofType)
        /\ sel.last =>
              /\ ret.pos = RankFromEnd(node, sel.ofType)
              /\ ret.pos = Cardinality(Counted(node, sel.ofType))
                              - RankFromStart(node, sel.ofType) + 1
        /\ ret.val = OnProgression(ret.pos, sel.a, sel.b)
        /\ ( /\ sel = nthChildSelector(2, 1, TRUE, FALSE)
             /\ Len(Siblings(node)) = 5
             /\ \A c \in Range(Siblings(node)) : Type[c] = ElementNode )
           => ret.val = (5 - IndexOf(node) + 1 \in {1, 3, 5})

\* nth-last-of-type run on a listed element that has a text sibling and an
\* element sibling of another name after it, so that its rank from the end
\* is not its index from the end, and that matches.
C5_Witness ==
    /\ pc = "applied"
    /\ sel = nthChildSelector(2, 1, TRUE, TRUE)
    /\ Type[node] = ElementNode
    /\ Listed(node)
    /\ \E k \in IndexOf(node) + 1..Len(Siblings(node)) : Type[Siblings(node)[k]] = TextNode
    /\ \E k \in IndexOf(node) + 1..Len(Siblings(node)) :
          Type[Siblings(node)[k]] = ElementNode /\ Data[Siblings(node)[k]] # Data[node]
    /\ ret.pos = 3
    /\ ret.val

\* The element children of n's parent, and those of them that carry n's name.
ElementChildren(n) == {c \in Range(Siblings(n)) : Type[c] = ElementNode}
NamedLike(n) == {c \in ElementChildren(n) : Data[c] = Data[n]}

\* C7 as stated: onlyChildSelector(false) matches iff the node is an element
\* with a parent that has exactly one element child; onlyChildSelector(true)
\* matches iff the node is an element with a parent and is the parent's only
\* element child carrying the node's name.
C7_OnlyChildAsStated ==
    (pc = "applied" /\ sel.kind = "only") =>
        ret.val = ( /\ Type[node] = ElementNode
                    /\ Parent[node] # Nil
                    /\ IF sel.ofType
                       THEN NamedLike(node) = {node}
                       ELSE Cardinality(ElementChildren(node)) = 1 )

\* C7, amended: onlyChildSelector(false) matches iff the node is an element
\* with a parent that has exactly one element child, whatever non-element
\* children there are; onlyChildSelector(true) matches iff the node is an
\* element with a parent that has exactly one element child carrying the
\* node's name (the node itself when the parent's Child list holds the node).
C7_OnlyChildCounts ==
    (pc = "applied" /\ sel.kind = "only") =>
        /\ ret.val = ( /\ Type[node] = ElementNode
                       /\ Parent[node] # Nil
                       /\ IF sel.ofType
                          THEN Cardinality(NamedLike(node)) = 1
                          ELSE Cardinality(ElementChildren(node)) = 1 )
        /\ (ret.val /\ Listed(node) /\ sel.ofType) => NamedLike(node) = {node}
        /\ (ret.val /\ Listed(node) /\ ~sel.ofType) => ElementChildren(node) = {node}

\* only-of-type matching a listed element that has text siblings and an
\* element sibling of another name.
C7_Witness ==
    /\ pc = "applied"
    /\ sel = onlyChildSelector(TRUE)
    /\ Listed(node)
    /\ ret.val
    /\ \E c \in Range(Siblings(node)) : Type[c] = TextNode
    /\ Cardinality(ElementChildren(node)) = 2

\* C8: every matcher returns a boolean without failing on every node: one
\* with no parent, one with no children, a non-element node, a node its
\* parent's Child list does not hold; nthChildSelector and onlyChildSelector
\* return false for every non-element node and every node without a parent.
C8_MatchersAreTotal ==
    pc = "applied" =>
        /\ ~ret.panic
        /\ ret.val \in BOOLEAN
        /\ ( /\ sel.kind \in {"nth", "only"}
             /\ Type[node] # ElementNode \/ Parent[node] = Nil )
           => ~ret.val

\* nthChildSelector run on the parentless node, an element with children.
C8_Witness ==
    /\ pc = "applied"
    /\ sel.kind = "nth"
    /\ Parent[node] = Nil
    /\ Type[node] = ElementNode
    /\ Len(Child[node]) > 0
    /\ ~ret.panic
    /\ ~ret.val

\* The outcome of the call agrees with the other formulation of "only".
AgreesWithOtherFormulation ==
    /\ sel.kind = "only"
          => ret.val = Apply(FirstAndLast(sel.ofType), node).val
    /\ (\E t \in BOOLEAN : sel = FirstAndLast(t))
          => ret.val = Apply(onlyChildSelector(sel.a.ofType), node).val

\* C10 as stated: on every node onlyChildSelector(ofType) returns what
\* intersectionSelector(nthChildSelector(0,1,false,ofType),
\* nthChildSelector(0,1,true,ofType)) returns.
C10_OnlyIsFirstAndLastAsStated ==
    pc = "applied" => AgreesWithOtherFormulation

\* C10, amended: the two agree on every node that has no parent or that its
\* parent's Child list holds.
C10_OnlyIsFirstAndLastWhenListed ==
    (pc = "applied" /\ (Parent[node] = Nil \/ Listed(node)))
        => AgreesWithOtherFormulation

\* only-of-type and first-and-last-of-type both accepting a listed element
\* that is neither the first nor the last child of its parent.
C10_Witness ==
    /\ pc = "applied"
    /\ sel = FirstAndLast(TRUE)
    /\ Listed(node)
    /\ ret.val
    /\ 1 < IndexOf(node)
    /\ IndexOf(node) < Len(Siblings(node))

--------------------------------------------------------------------------
(* Claim about the an+b test.                                              *)

\* C4: for all ints a and b and every element in its parent's Child list at
\* (possibly mirrored) position i, nthChildSelector(a, b, last, ofType)
\* matches iff i = a*k + b for some integer k >= 0.
C4_NthMatchesProgression ==
    (pc = "applied" /\ sel.kind = "nth" /\ Type[node] = ElementNode /\ Listed(node)) =>
        ret.val = OnProgression(ret.pos, sel.a, sel.b)

\* What does hold of the test: it is exact whenever i - b is an int.
NthExactWithoutOverflow ==
    ( /\ pc = "applied" /\ sel.kind = "nth" /\ Type[node] = ElementNode /\ Listed(node)
      /\ ret.pos - sel.b \in GoInt ) =>
        ret.val = OnProgression(ret.pos, sel.a, sel.b)

--------------------------------------------------------------------------
(* Claims about the attribute selectors.                                   *)

\* ASCII case folding of one byte, and equality of two strings under it.
Fold(c) == IF c \in 65..90 THEN c + 32 ELSE c
EqualFold(x, y) == Len(x) = Len(y) /\ \A i \in 1..Len(x) : Fold(x[i]) = Fold(y[i])

Attrs == Attr[node]

Cuts(s) == {0, Len(s) + 1} \cup {i \in 1..Len(s) : s[i] \in Whitespace}
ItemEnds(s) ==
    {e \in Cuts(s) \X Cuts(s) :
        e[1] < e[2] /\ ~\E c \in Cuts(s) : e[1] < c /\ c < e[2]}
Items(s) == {SubSeq(s, e[1] + 1, e[2] - 1) : e \in ItemEnds(s)}

\* The items of s but for an empty item at the end of s: an empty value has
\* none, and nothing follows a final whitespace byte.
ItemsBeforeEnd(s) ==
    {SubSeq(s, e[1] + 1, e[2] - 1) :
        e \in {x \in ItemEnds(s) : ~(x[1] = Len(s) /\ x[2] = Len(s) + 1)}}

--------------------------------------------------------------------------
(* Claim about Compile.                                                    *)

\* C1: Compile returns a non-nil Selector with a nil error iff the parser
\* returned no error and p.i reached len(sel); otherwise the Selector is nil
\* and the error non-nil, and for leftover input the error reports
\* len(sel) - p.i bytes of the selector text; never a Selector with an error.
C1_CompileAllOrNothing ==
    pc = "compiled" =>
        /\ (compiled.sel # NoSel /\ compiled.err = "nil")
              <=> (~p.err /\ p.i = Len(p.s))
        /\ (p.err \/ p.i < Len(p.s)) => (compiled.sel = NoSel /\ compiled.err # "nil")
        /\ (~p.err /\ p.i < Len(p.s)) =>
              /\ compiled.err = "leftover"
              /\ compiled.left = Len(p.s) - p.i
              /\ compiled.text = p.s
        /\ (~p.err /\ p.i = Len(p.s)) => compiled.sel = p.sel
        /\ ~(compiled.sel # NoSel /\ compiled.err # "nil")

\* The parser built a Selector without error and stopped one byte short of
\* the end of the text: Compile returned the leftover error.
C1_Witness ==
    /\ pc = "compiled"
    /\ ~p.err
    /\ p.sel # NoSel
    /\ Len(p.s) = MaxSelLen
    /\ p.i = Len(p.s) - 1
    /\ compiled.sel = NoSel
    /\ compiled.left = 1

====
